---------------------------- MODULE Spec2Model ----------------------------
(***************************************************************************)
(* Model of vox/recorder.py: the capture session record_until_silence      *)
(* (driver callback -> queue -> consuming loop -> normalisation) and the   *)
(* fixed-length capture record_for_duration.                               *)
(*                                                                         *)
(* Sample counts are scaled down: silent_samples_needed, max_samples and   *)
(* the block size are small naturals that keep the ratios the code can     *)
(* meet (a block size that divides a limit, one that does not, a maximum   *)
(* below the silence window).  A sample is an integer amplitude; levels    *)
(* are compared in the mean-square domain, which is what db < threshold_db *)
(* decides because 20*log10 is increasing.                                 *)
(***************************************************************************)
EXTENDS Integers, Sequences, FiniteSets, TLC

\* ------------------------------------------------------------------ bounds
\* blocks the driver delivers in one session
MaxDelivered == 3
\* largest block size (frames per callback) of a session
MaxBlockLen == 2
\* largest silent_samples_needed
MaxNeeded == 2
\* largest max_samples
MaxSamples == 3
\* largest num_frames of record_for_duration
MaxFrames == 2
\* the capacity the specification attributes to the block queue
QueueCapacity == 2
\* calls of the recorder made one after another
MaxCalls == 2

\* longest buffer given to _normalize
MaxBufLen == 3

\* longest device list of the platform
MaxDevices == 3

\* key events handled by a PushToTalk
MaxEvents == 4

\* record_voice requests a client sends
MaxRequests == 2

\* recordings the record thread of listen completes
MaxRecordings == 3

\* calls of get_model each worker thread makes
MaxGetCalls == 2

\* recorder.py line 9
SAMPLE_RATE == 16000

\* ------------------------------------------------------------ input sets
\* amplitudes a sample can take
SampleVals == {-2, 0}

\* the floor level of _rms_to_db, as a level value
FloorLevel == [floor |-> TRUE, num |-> 0, den |-> 1]

\* threshold_db values: above_floor says threshold_db > -120.0, sq is
\* 10^(threshold_db/10) in squared sample units
Thresholds ==
  { [above_floor |-> FALSE, sq |-> 0],
    [above_floor |-> TRUE,  sq |-> 0],
    [above_floor |-> TRUE,  sq |-> 3] }

\* what sd.query_devices(device, kind="input") can do
QueryOutcomes ==
  { [kind |-> "info", channels |-> 0],
    [kind |-> "info", channels |-> 1],
    [kind |-> "PortAudioError", channels |-> 0],
    [kind |-> "Exception", channels |-> 0] }

\* duration_seconds values, as rationals: k / (2 * SAMPLE_RATE) seconds, so
\* that every second one is not a whole number of samples
Durations ==
  { [num |-> k, den |-> 2 * SAMPLE_RATE] : k \in 2..(2 * MaxFrames + 1) }

\* who called record_until_silence: say runs it in the main thread,
\* record_voice in a worker thread (asyncio.to_thread)
Callers == {"say", "mcp"}

\* sample values of a float buffer, as rationals in lowest terms
BufferVals ==
  { [num |-> -2, den |-> 1], [num |-> 0, den |-> 1],
    [num |-> 1, den |-> 1], [num |-> 1, den |-> 2] }

\* the rms argument of _rms_to_db, by its sign and its square
RmsVals == { [num |-> n, den |-> d] : n \in -2..2, d \in 1..2 }

\* max_input_channels of a platform device
ChannelCounts == {0, 1, 2}

\* transcriber.py line 13
VALID_MODEL_SIZES == {"tiny", "base", "small", "medium"}

\* output.py line 12
VALID_MODES == {"clipboard", "stdout", "paste"}

\* the worker threads that call get_model
Workers == {1, 2}

\* the threads that run the key handlers of a PushToTalk
Threads == {1, 2}

RECURSIVE SeqsOfLen(_, _)
SeqsOfLen(S, n) ==
  IF n = 0 THEN { <<>> }
  ELSE { Append(s, x) : s \in SeqsOfLen(S, n - 1), x \in S }

\* the blocks a stream with the given block size can deliver
BlocksOf(size) == SeqsOfLen(SampleVals, size)

\* ---------------------------------------------------------- pure helpers
Abs(x) == IF x < 0 THEN -x ELSE x

RECURSIVE GCD(_, _)
GCD(a, b) == IF b = 0 THEN a ELSE GCD(b, a % b)

\* the rational n/d (d > 0) in lowest terms
Frac(n, d) ==
  LET g == GCD(Abs(n), d)
  IN  [num |-> n \div g, den |-> d \div g]

RECURSIVE SumSq(_)
SumSq(chunk) ==
  IF chunk = <<>> THEN 0 ELSE Head(chunk) * Head(chunk) + SumSq(Tail(chunk))

RECURSIVE PeakAbs(_)
PeakAbs(audio) ==
  IF audio = <<>> THEN 0
  ELSE LET p == PeakAbs(Tail(audio))
           a == Abs(Head(audio))
       IN  IF a > p THEN a ELSE p

\* np.concatenate(chunks).flatten()
RECURSIVE Concatenate(_)
Concatenate(chunks) ==
  IF chunks = <<>> THEN <<>> ELSE Head(chunks) \o Concatenate(Tail(chunks))

\* _normalize: audio / peak when peak > 0, else unchanged
Normalize(audio) ==
  LET peak == PeakAbs(audio)
  IN  IF peak > 0
      THEN [i \in 1..Len(audio) |-> Frac(audio[i], peak)]
      ELSE [i \in 1..Len(audio) |-> Frac(audio[i], 1)]

\* np.mean(chunk ** 2) as the pair sum / length
MeanSquare(chunk) == [num |-> SumSq(chunk), den |-> Len(chunk)]

\* the floor only for a negative rms
RmsToDbNegativeOnly(ms) ==
  IF ms.num < 0 THEN FloorLevel
  ELSE [floor |-> FALSE, num |-> ms.num, den |-> ms.den]

\* _rms_to_db: the floor for rms <= 0, else the level of the mean square
RmsToDb(ms) ==
  IF ms.num <= 0 THEN FloorLevel
  ELSE [floor |-> FALSE, num |-> ms.num, den |-> ms.den]

\* db < threshold_db
DbLess(db, thr) ==
  IF db.floor THEN thr.above_floor ELSE db.num < thr.sq * db.den

\* a block counted as loud whatever its level
SilentUpdateNoReset(silent, chunk, thr) == silent + Len(chunk)

\* lines 89-95: the new value of silent_samples
SilentUpdate(silent, chunk, thr) ==
  IF DbLess(RmsToDb(MeanSquare(chunk)), thr) THEN silent + Len(chunk) ELSE 0

\* the silence stop with >= for the total
StopBySilenceGeq(silent, total, needed) == silent >= needed /\ total >= needed

\* line 97
StopBySilence(silent, total, needed) == silent >= needed /\ total > needed

\* the maximum stop one sample late
StopByMaxStrict(total, max) == total > max

\* the maximum stop on exact equality only
StopByMaxEq(total, max) == total = max

\* line 100
StopByMax(total, max) == total >= max

\* a callback that keeps at most QueueCapacity blocks, dropping the oldest
CallbackDropOldest(q, indata) ==
  IF Len(q) >= QueueCapacity THEN Append(Tail(q), indata) ELSE Append(q, indata)

\* lines 62-63: audio_queue.put(indata.copy()) on an unbounded queue.Queue()
Callback(q, indata) == Append(q, indata)

\* a get that takes the newest block
QueueGetNewest(q) == [chunk |-> q[Len(q)], rest |-> SubSeq(q, 1, Len(q) - 1)]

\* line 82: audio_queue.get
QueueGet(q) == [chunk |-> Head(q), rest |-> Tail(q)]

\* a check that lets a device without input channels through
EnsureMicAvailableLax(q) ==
  IF q.kind = "info" /\ q.channels >= 0 THEN "ok" ELSE "RecorderError"

\* lines 39-49: _ensure_mic_available
EnsureMicAvailable(q) ==
  IF q.kind = "info"
  THEN IF q.channels < 1 THEN "RecorderError" ELSE "ok"
  ELSE "RecorderError"

\* an except clause that lets the driver error through
TranslateStreamErrorMissing(e) == e

\* lines 103-104 and 130-131: except sd.PortAudioError -> RecorderError
TranslateStreamError(e) == IF e = "PortAudioError" THEN "RecorderError" ELSE e

\* frames rounded up instead of truncated
NumFramesCeil(duration) ==
  (duration.num * SAMPLE_RATE + duration.den - 1) \div duration.den

\* line 119: int(duration_seconds * SAMPLE_RATE), for a duration >= 0
NumFrames(duration) == (duration.num * SAMPLE_RATE) \div duration.den

\* locals that live on from the previous call, as module state would
FreshLocalsKeepQueue(prev) ==
  [audio_queue |-> prev.audio_queue, chunks |-> <<>>,
   silent_samples |-> 0, total_samples |-> 0]

\* lines 60-69: every call builds its own queue, list and counters
FreshLocals(prev) ==
  [audio_queue |-> <<>>, chunks |-> <<>>,
   silent_samples |-> 0, total_samples |-> 0]

\* a with block that leaves the stream as it was
StreamExitLeak(s) == s

\* lines 72-79: leaving the with block stops and closes the stream
StreamExit(s) == "closed"

\* rationals [num, den] with den > 0
AbsQ(q) == [num |-> Abs(q.num), den |-> q.den]

LessQ(a, b) == a.num * b.den < b.num * a.den

\* a / b for b > 0, in lowest terms
DivQ(a, b) == Frac(a.num * b.den, a.den * b.num)

\* np.max of a non-empty array
RECURSIVE MaxQ(_)
MaxQ(xs) ==
  IF Len(xs) = 1 THEN xs[1]
  ELSE LET m == MaxQ(Tail(xs))
       IN  IF LessQ(m, Head(xs)) THEN Head(xs) ELSE m

\* line 138: np.max(np.abs(audio)) of a non-empty buffer
Peak(audio) == MaxQ([i \in 1..Len(audio) |-> AbsQ(audio[i])])

\* lines 137-141: _normalize on a float buffer; np.max raises ValueError on
\* an empty array
NormalizeCall(audio) ==
  IF audio = <<>>
  THEN [status |-> "ValueError", value |-> <<>>]
  ELSE LET peak == Peak(audio)
       IN  [status |-> "returned",
            value  |-> IF peak.num > 0
                       THEN [i \in 1..Len(audio) |-> DivQ(audio[i], peak)]
                       ELSE audio]

\* the square of rms with the sign of rms: what RmsToDb reads
SignedSquare(rms) == [num |-> rms.num * Abs(rms.num), den |-> rms.den * rms.den]

\* each input device numbered by its place among the input devices
RECURSIVE GetInputDevicesRenumbered(_, _)
GetInputDevicesRenumbered(devices, i) ==
  IF devices = <<>> THEN <<>>
  ELSE IF Head(devices) > 0
       THEN << [index |-> i, channels |-> Head(devices)] >>
              \o GetInputDevicesRenumbered(Tail(devices), i + 1)
       ELSE GetInputDevicesRenumbered(Tail(devices), i)

\* lines 19-30: get_input_devices over the rest of the enumeration, i the
\* index of its first device; a device is its max_input_channels
RECURSIVE GetInputDevices(_, _)
GetInputDevices(devices, i) ==
  IF devices = <<>> THEN <<>>
  ELSE IF Head(devices) > 0
       THEN << [index |-> i, channels |-> Head(devices)] >>
              \o GetInputDevices(Tail(devices), i + 1)
       ELSE GetInputDevices(Tail(devices), i + 1)

\* the model_size arguments of get_model
ModelSizes == VALID_MODEL_SIZES \cup {"large"}

\* the texts handed to output.py
Texts == {"", "a", "bc"}

\* what the clipboard holds before
ClipboardBefore == {"", "old"}

\* output.py lines 62-67: the function deliver dispatches to
Dispatch(mode) ==
  CASE mode = "clipboard" -> "to_clipboard"
    [] mode = "stdout" -> "to_stdout"
    [] mode = "paste" -> "to_paste"

\* a failed copy that does not stop to_paste
NextAfterCopyLenient(f, ok) ==
  IF f = "to_paste" THEN "keys" ELSE IF ok THEN "return" ELSE "raise"

\* output.py lines 21-25 and 36-38: after pyperclip.copy, to_clipboard
\* raises OutputError or returns, and to_paste goes on to the keystroke
NextAfterCopy(f, ok) ==
  IF ~ok THEN "raise" ELSE IF f = "to_paste" THEN "keys" ELSE "return"

\* a timeout taken as the end of the stream
ContinueBreaks(l) == [l EXCEPT !.pc = "exit"]

\* recorder.py lines 83-84: except queue.Empty: continue
Continue(l) == l

\* every key taken for the trigger key
IsTriggerKeyAny(key) == TRUE

\* hotkey.py lines 67, 79: key == self._trigger_key
IsTriggerKey(key) == key = "trigger"

\* a press invokes on_start whatever _active is
PressFiresAlways(is_active) == TRUE

\* hotkey.py line 69: if not self._active
PressFires(is_active) == ~is_active

\* hotkey.py line 81: if self._active
ReleaseFires(is_active) == is_active

\* ------------------------------------------------------------------ state
VARIABLES
  fn,                     \* the function called
  query,                  \* what the device query answers
  threshold_db,           \* parameter
  silent_samples_needed,  \* int(silence_duration * SAMPLE_RATE)
  max_samples,            \* int(max_duration * SAMPLE_RATE)
  blocksize,              \* frames per callback of the stream
  num_frames,             \* int(duration_seconds * SAMPLE_RATE)
  pc,                     \* position of the calling thread
  stream,                 \* "none", "open", "closed"
  driver_calls,           \* the calls made to the audio library, in order
  driver_error,           \* whether the driver raised PortAudioError
  delivered,              \* every block the driver handed to the callback
  audio_queue,
  chunks,
  silent_samples,
  total_samples,
  stop,                   \* the break taken: "none", "silence", "max"
  recording,              \* the array sd.rec returned
  outcome,                \* "none", "returned", or the exception raised
  result,                 \* the returned buffer
  duration_seconds,       \* parameter of record_for_duration
  rec_frames,             \* the frames argument of each sd.rec call
  caller,                 \* the command that made the call
  cancel_requested,       \* the caller asked for the session to be cancelled
  calls,                  \* number of the current call
  call,                   \* a helper function called on its own
  ret,                    \* what that call returned or raised
  pure_pc,                \* "ready", "returned"
  active,                 \* PushToTalk._active
  lock,                   \* PushToTalk._lock: 0 when free, else the holder
  h_pc,                   \* position of each handler thread
  h_ev,                   \* the key event each thread handles, n its number
  cb_log,                 \* the callbacks invoked, in order
  h_exc,                  \* what the callback of each thread's handler raised
  events,                 \* trigger-key events handled so far
  app,                    \* "listen" or "mcp": the running command
  recording_event,        \* listen: threading.Event
  audio_ready,            \* listen: threading.Event
  audio_data,             \* listen: audio_data["audio"], 0 when absent
  rec_pc,                 \* listen: position of the record thread
  proc_pc,                \* listen: position of the process thread
  mcp_pc,                 \* mcp: position of each record_voice invocation
  rec_audio,              \* listen: audio of record_loop, 0 a zero-length one
  proc_audio,             \* listen: audio of process_loop, 0 for None
  rec_made,               \* listen: non-empty recordings made so far
  stored,                 \* listen: the recordings put in audio_data
  transcribed,            \* listen: the recordings passed to transcribe
  mcp,                    \* mcp: arguments, audio, text and calls of each
  say_pc,                 \* say: position of the command
  say,                    \* say: its options, audio, text and calls
  out_call,               \* output.py: the function called, mode and text
  out_pc,                 \* output.py: position in it
  clipboard,              \* the system clipboard
  out_log,                \* the output actions attempted, in order
  out_outcome,            \* "none", "returned", or the exception raised
  models,                 \* transcriber._models: size -> instance, 0 if absent
  gm_pc,                  \* position of each thread in get_model
  gm_arg,                 \* its model_size
  gm_ret,                 \* what its calls returned or raised, in order
  constructed             \* the sizes WhisperModel was constructed for

vars ==
  << fn, query, threshold_db, silent_samples_needed, max_samples, blocksize,
     num_frames, pc, stream, driver_calls, driver_error, delivered,
     audio_queue, chunks, silent_samples, total_samples, stop, recording,
     outcome, result, duration_seconds, rec_frames, caller,
     cancel_requested, calls, call, ret, pure_pc, active, lock, h_pc, h_ev,
     cb_log, h_exc, events, app, recording_event, audio_ready, audio_data, rec_pc,
     proc_pc, mcp_pc, rec_audio, proc_audio, rec_made, stored, transcribed,
     mcp, say_pc, say, out_call, out_pc, clipboard, out_log, out_outcome,
     models, gm_pc, gm_arg, gm_ret, constructed >>

\* the state of one recorder call
recvars ==
  << fn, query, threshold_db, silent_samples_needed, max_samples, blocksize,
     num_frames, pc, stream, driver_calls, driver_error, delivered,
     audio_queue, chunks, silent_samples, total_samples, stop, recording,
     outcome, result, duration_seconds, rec_frames, caller,
     cancel_requested, calls >>

purevars == << call, ret, pure_pc >>

pttvars == << active, lock, h_pc, h_ev, cb_log, h_exc, events >>

\* the record thread and the process thread of listen
threadvars ==
  << audio_ready, audio_data, rec_pc, proc_pc, rec_audio, proc_audio,
     rec_made, stored, transcribed >>

\* the invocations of record_voice and of say
flowvars == << mcp_pc, mcp, say_pc, say >>

appvars == << app, recording_event, threadvars, flowvars >>

\* what a recorder call does not touch
outvars == << out_call, out_pc, clipboard, out_log, out_outcome >>

gmvars == << models, gm_pc, gm_arg, gm_ret, constructed >>

\* output.py and transcriber.py
libvars == << outvars, gmvars >>

elsewhere == << purevars, pttvars, appvars, libvars >>

params ==
  << fn, query, threshold_db, silent_samples_needed, max_samples, blocksize,
     num_frames >>

session == << chunks, silent_samples, total_samples, stop >>

\* what no step of a recording changes
fixed ==
  << params, duration_seconds, caller, cancel_requested, calls, elsewhere >>

\* no helper function is being called on its own
PureIdle ==
  /\ call = [f |-> "none", arg |-> <<>>]
  /\ ret = [status |-> "none", value |-> <<>>]
  /\ pure_pc = "idle"

\* hotkey.py lines 33-34: a PushToTalk as constructed; no event handled yet
PttInit ==
  /\ active = FALSE
  /\ lock = 0
  /\ h_pc = [t \in Threads |-> "idle"]
  /\ h_ev = [t \in Threads |-> [kind |-> "none", key |-> "none", n |-> 0]]
  /\ cb_log = <<>>
  /\ h_exc = [t \in Threads |-> "none"]
  /\ events = 0

\* a command or tool not yet invoked: its options, the audio recorded (0 a
\* zero-length buffer), the text, the calls it made and how it ended
NoFlow ==
  [model |-> "none", output_mode |-> "none", clean_text |-> FALSE,
   no_clean |-> FALSE, audio |-> 0, text |-> "", log |-> <<>>, io |-> {},
   outcome |-> "none"]

\* cli.py lines 64-66, 84-85, 103-104: the events, the dict and the two
\* threads of listen; no record_voice invocation
ThreadsInit ==
  /\ recording_event = FALSE
  /\ audio_ready = FALSE
  /\ audio_data = 0
  /\ rec_pc = "wait"
  /\ proc_pc = "wait"
  /\ rec_audio = 0
  /\ proc_audio = 0
  /\ rec_made = 0
  /\ stored = {}
  /\ transcribed = {}
  /\ mcp_pc = [r \in 1..MaxRequests |-> "idle"]
  /\ mcp = [r \in 1..MaxRequests |-> NoFlow]
  /\ say_pc = "idle"
  /\ say = NoFlow

\* output.py: nothing is being delivered
OutIdle ==
  /\ out_call = [f |-> "none", mode |-> "none", text |-> ""]
  /\ out_pc = "idle"
  /\ clipboard = ""
  /\ out_log = <<>>
  /\ out_outcome = "none"

\* transcriber.py line 11: _models = {} and no call of get_model
ModelsIdle ==
  /\ models = [m \in VALID_MODEL_SIZES |-> 0]
  /\ gm_pc = [w \in Workers |-> "idle"]
  /\ gm_arg = [w \in Workers |-> "none"]
  /\ gm_ret = [w \in Workers |-> <<>>]
  /\ constructed = <<>>

LibIdle == OutIdle /\ ModelsIdle

\* no command is running around the recorder call
AppIdle ==
  /\ app = "none"
  /\ ThreadsInit

RecInit ==
  /\ PureIdle
  /\ PttInit
  /\ LibIdle
  /\ AppIdle
  /\ fn \in {"record_until_silence", "record_for_duration"}
  /\ query \in QueryOutcomes
  /\ IF fn = "record_until_silence"
     THEN /\ threshold_db \in Thresholds
          /\ silent_samples_needed \in 0..MaxNeeded
          /\ max_samples \in 1..MaxSamples
          /\ blocksize \in 1..MaxBlockLen
          /\ duration_seconds = [num |-> 0, den |-> 1]
          /\ num_frames = 0
     ELSE /\ threshold_db = [above_floor |-> TRUE, sq |-> 0]
          /\ silent_samples_needed = 0
          /\ max_samples = 1
          /\ blocksize = 1
          /\ duration_seconds \in Durations
          /\ num_frames = NumFrames(duration_seconds)
  /\ pc = "ensure"
  /\ stream = "none"
  /\ driver_calls = <<>>
  /\ driver_error = FALSE
  /\ delivered = <<>>
  /\ audio_queue = <<>>
  /\ chunks = <<>>
  /\ silent_samples = 0
  /\ total_samples = 0
  /\ stop = "none"
  /\ recording = <<>>
  /\ outcome = "none"
  /\ result = <<>>
  /\ rec_frames = <<>>
  /\ cancel_requested = FALSE
  /\ calls = 1

Init ==
  /\ RecInit
  /\ caller = "say"

\* ---------------------------------------------------------------- actions
\* line 58 / 117, then lines 60-69: the device check and the fresh locals
Ensure ==
  /\ pc = "ensure"
  /\ driver_calls' = Append(driver_calls, "query_devices")
  /\ IF EnsureMicAvailable(query) = "ok"
     THEN /\ pc' = IF fn = "record_until_silence" THEN "open" ELSE "rec"
          /\ outcome' = outcome
     ELSE /\ pc' = "done"
          /\ outcome' = EnsureMicAvailable(query)
  /\ LET fresh == FreshLocals([audio_queue |-> audio_queue, chunks |-> chunks,
                               silent_samples |-> silent_samples,
                               total_samples |-> total_samples])
     IN  /\ audio_queue' = fresh.audio_queue
         /\ chunks' = fresh.chunks
         /\ silent_samples' = fresh.silent_samples
         /\ total_samples' = fresh.total_samples
  /\ UNCHANGED << fixed, stream, driver_error, delivered, stop, recording,
                  result, rec_frames >>

\* lines 71-79: sd.InputStream(...) constructed and entered
OpenStream ==
  /\ pc = "open"
  /\ driver_calls' = Append(driver_calls, "InputStream")
  /\ \E ok \in BOOLEAN :
       IF ok
       THEN /\ stream' = "open"
            /\ pc' = "loop"
            /\ UNCHANGED << driver_error, outcome >>
       ELSE /\ stream' = "closed"
            /\ driver_error' = TRUE
            /\ outcome' = TranslateStreamError("PortAudioError")
            /\ pc' = "done"
  /\ UNCHANGED << fixed, delivered, audio_queue, session, recording, result,
                  rec_frames >>

\* lines 62-63: the driver thread hands one block to the callback
Deliver ==
  /\ stream = "open"
  /\ Len(delivered) < MaxDelivered
  /\ \E indata \in BlocksOf(blocksize) :
       /\ delivered' = Append(delivered, indata)
       /\ audio_queue' = Callback(audio_queue, indata)
  /\ UNCHANGED << fixed, pc, stream, driver_calls, driver_error, session,
                  recording, outcome, result,
                  rec_frames >>

\* lines 81-84: get times out on an empty queue and the loop continues
GetTimeout ==
  /\ pc = "loop"
  /\ audio_queue = <<>>
  /\ LET l == Continue([pc |-> pc, stop |-> stop, chunks |-> chunks,
                        silent_samples |-> silent_samples,
                        total_samples |-> total_samples])
     IN  /\ pc' = l.pc
         /\ stop' = l.stop
         /\ chunks' = l.chunks
         /\ silent_samples' = l.silent_samples
         /\ total_samples' = l.total_samples
  /\ UNCHANGED << fixed, stream, driver_calls, driver_error, delivered,
                  audio_queue, recording, outcome, result, rec_frames >>

\* lines 82, 86-101: one block taken, counted, measured, and the two breaks
ProcessBlock ==
  /\ pc = "loop"
  /\ audio_queue # <<>>
  /\ LET got    == QueueGet(audio_queue)
         chunk  == got.chunk
         total  == total_samples + Len(chunk)
         silent == SilentUpdate(silent_samples, chunk, threshold_db)
     IN  /\ audio_queue' = got.rest
         /\ chunks' = Append(chunks, chunk)
         /\ total_samples' = total
         /\ silent_samples' = silent
         /\ IF StopBySilence(silent, total, silent_samples_needed)
            THEN stop' = "silence" /\ pc' = "exit"
            ELSE IF StopByMax(total, max_samples)
                 THEN stop' = "max" /\ pc' = "exit"
                 ELSE stop' = "none" /\ pc' = "loop"
  /\ UNCHANGED << fixed, stream, driver_calls, driver_error, delivered,
                  recording, outcome, result,
                  rec_frames >>

\* line 79 on the way out: the with block stops and closes the stream
ExitStream ==
  /\ pc = "exit"
  /\ stream' = StreamExit(stream)
  /\ \E ok \in BOOLEAN :
       IF ok
       THEN /\ pc' = "finalize"
            /\ UNCHANGED << driver_error, outcome >>
       ELSE /\ driver_error' = TRUE
            /\ outcome' = TranslateStreamError("PortAudioError")
            /\ pc' = "done"
  /\ UNCHANGED << fixed, driver_calls, delivered, audio_queue, session,
                  recording, result,
                  rec_frames >>

\* lines 106-110
Finalize ==
  /\ pc = "finalize"
  /\ fn = "record_until_silence"
  /\ result' = IF chunks = <<>> THEN <<>> ELSE Normalize(Concatenate(chunks))
  /\ outcome' = "returned"
  /\ pc' = "done"
  /\ UNCHANGED << fixed, stream, driver_calls, driver_error, delivered,
                  audio_queue, session, recording,
                  rec_frames >>

\* lines 119-128: sd.rec(frames=num_frames, ...)
Rec ==
  /\ pc = "rec"
  /\ driver_calls' = Append(driver_calls, "rec")
  /\ rec_frames' = Append(rec_frames, num_frames)
  /\ \E ok \in BOOLEAN :
       IF ok
       THEN /\ pc' = "wait"
            /\ UNCHANGED << driver_error, outcome >>
       ELSE /\ driver_error' = TRUE
            /\ outcome' = TranslateStreamError("PortAudioError")
            /\ pc' = "done"
  /\ UNCHANGED << fixed, stream, delivered, audio_queue, session, recording,
                  result >>

\* line 129: sd.wait() returns with the array filled, or the driver fails
Wait ==
  /\ pc = "wait"
  /\ driver_calls' = Append(driver_calls, "wait")
  /\ \E ok \in BOOLEAN :
       IF ok
       THEN /\ \E data \in SeqsOfLen(SampleVals, rec_frames[Len(rec_frames)]) :
                 recording' = data
            /\ pc' = "finalize_rec"
            /\ UNCHANGED << driver_error, outcome >>
       ELSE /\ \E k \in 0..(rec_frames[Len(rec_frames)] - 1) :
                 \E data \in SeqsOfLen(SampleVals, k) : recording' = data
            /\ driver_error' = TRUE
            /\ outcome' = TranslateStreamError("PortAudioError")
            /\ pc' = "done"
  /\ UNCHANGED << fixed, stream, delivered, audio_queue, session, result,
                  rec_frames >>

\* lines 133-134
FinalizeRec ==
  /\ pc = "finalize_rec"
  /\ result' = Normalize(recording)
  /\ outcome' = "returned"
  /\ pc' = "done"
  /\ UNCHANGED << fixed, stream, driver_calls, driver_error, delivered,
                  audio_queue, session, recording,
                  rec_frames >>

\* the thread that called the recorder
Consumer ==
  \/ Ensure
  \/ OpenStream
  \/ GetTimeout
  \/ ProcessBlock
  \/ ExitStream
  \/ Finalize
  \/ Rec
  \/ Wait
  \/ FinalizeRec

Next == Consumer \/ Deliver

Spec == Init /\ [][Next]_vars

\* the calling thread keeps running; nothing is assumed of the driver
FairSpec == Spec /\ WF_vars(Consumer)

\* the open stream keeps calling the callback and the calling thread runs
LiveSpec == Spec /\ WF_vars(Consumer) /\ WF_vars(Deliver)

\* cli.py lines 146-153 (Ctrl+C while say records) and mcp_server.py lines
\* 42-44 (the awaiting task is cancelled): a request to cancel the session
RequestCancel ==
  /\ fn = "record_until_silence"
  /\ pc = "loop"
  /\ ~cancel_requested
  /\ cancel_requested' = TRUE
  /\ UNCHANGED << params, duration_seconds, caller, calls, elsewhere, pc,
                  stream, driver_calls, driver_error, delivered, audio_queue,
                  session, recording, outcome, result, rec_frames >>

\* cli.py lines 151-153: in say the recorder runs in the main thread, where
\* Ctrl+C raises KeyboardInterrupt; it leaves the with block (the stream is
\* closed), passes the except clause of line 103 and is caught by say.  The
\* worker thread record_voice uses is not reached by the task's cancellation.
Interrupt ==
  /\ caller = "say"
  /\ cancel_requested
  /\ pc \in {"loop", "exit", "finalize"}
  /\ stream' = IF stream = "open" THEN StreamExit(stream) ELSE stream
  /\ outcome' = "KeyboardInterrupt"
  /\ pc' = "done"
  /\ UNCHANGED << fixed, driver_calls, driver_error, delivered, audio_queue,
                  session, recording, result, rec_frames >>

CancelInit ==
  /\ RecInit
  /\ caller \in Callers

CancelNext == Next \/ RequestCancel \/ Interrupt

CancelSpec == CancelInit /\ [][CancelNext]_vars

\* the calling thread runs and a pending KeyboardInterrupt is raised; nothing
\* is assumed of the driver
CancelFairSpec == CancelSpec /\ WF_vars(Consumer) /\ WF_vars(Interrupt)

\* the caller calls the recorder again after it returned or raised: a new
\* call frame, a new stream object; what the previous call left in its
\* locals is kept here until the new call builds its own
NextCall ==
  /\ pc = "done"
  /\ calls < MaxCalls
  /\ calls' = calls + 1
  /\ pc' = "ensure"
  /\ stream' = "none"
  /\ driver_calls' = <<>>
  /\ driver_error' = FALSE
  /\ delivered' = <<>>
  /\ stop' = "none"
  /\ recording' = <<>>
  /\ outcome' = "none"
  /\ result' = <<>>
  /\ rec_frames' = <<>>
  /\ UNCHANGED << params, duration_seconds, caller, cancel_requested,
                  elsewhere, audio_queue, chunks, silent_samples,
                  total_samples >>

SeqNext == Next \/ NextCall

SeqSpec == Init /\ [][SeqNext]_vars

\* no recorder call is in progress
RecorderIdle ==
  /\ fn = "none"
  /\ query = [kind |-> "info", channels |-> 1]
  /\ threshold_db = [above_floor |-> TRUE, sq |-> 0]
  /\ silent_samples_needed = 0
  /\ max_samples = 1
  /\ blocksize = 1
  /\ num_frames = 0
  /\ pc = "idle"
  /\ stream = "none"
  /\ driver_calls = <<>>
  /\ driver_error = FALSE
  /\ delivered = <<>>
  /\ audio_queue = <<>>
  /\ chunks = <<>>
  /\ silent_samples = 0
  /\ total_samples = 0
  /\ stop = "none"
  /\ recording = <<>>
  /\ outcome = "none"
  /\ result = <<>>
  /\ duration_seconds = [num |-> 0, den |-> 1]
  /\ rec_frames = <<>>
  /\ caller = "none"
  /\ cancel_requested = FALSE
  /\ calls = 1

\* the helper functions of recorder.py, each called on its own
PureCalls ==
  { [f |-> "_normalize", arg |-> a] :
      a \in UNION { SeqsOfLen(BufferVals, n) : n \in 0..MaxBufLen } }
  \cup { [f |-> "_rms_to_db", arg |-> r] : r \in RmsVals }
  \cup { [f |-> "level_check", arg |-> [chunk |-> c, threshold_db |-> t]] :
            c \in UNION { BlocksOf(n) : n \in 1..MaxBlockLen },
            t \in Thresholds }
  \cup { [f |-> "get_input_devices", arg |-> d] :
            d \in UNION { SeqsOfLen(ChannelCounts, n) : n \in 0..MaxDevices } }

PureInit ==
  /\ RecorderIdle
  /\ PttInit
  /\ LibIdle
  /\ AppIdle
  /\ call \in PureCalls
  /\ ret = [status |-> "none", value |-> <<>>]
  /\ pure_pc = "ready"

\* lines 137-141
ApplyNormalize ==
  /\ pure_pc = "ready"
  /\ call.f \in {"_normalize", "_normalize again"}
  /\ ret' = NormalizeCall(call.arg)
  /\ pure_pc' = "returned"
  /\ UNCHANGED << recvars, libvars, pttvars, appvars, call >>

\* _normalize called on what _normalize returned
NormalizeAgain ==
  /\ pure_pc = "returned"
  /\ call.f = "_normalize"
  /\ ret.status = "returned"
  /\ call' = [f |-> "_normalize again", arg |-> ret.value]
  /\ ret' = [status |-> "none", value |-> <<>>]
  /\ pure_pc' = "ready"
  /\ UNCHANGED << recvars, libvars, pttvars, appvars >>

\* lines 33-36
ApplyRmsToDb ==
  /\ pure_pc = "ready"
  /\ call.f = "_rms_to_db"
  /\ ret' = [status |-> "returned", value |-> RmsToDb(SignedSquare(call.arg))]
  /\ pure_pc' = "returned"
  /\ UNCHANGED << recvars, libvars, pttvars, appvars, call >>

\* lines 89-92: rms of a block, its level, the comparison with threshold_db
ApplyLevelCheck ==
  /\ pure_pc = "ready"
  /\ call.f = "level_check"
  /\ ret' = [status |-> "returned",
             value  |-> DbLess(RmsToDb(MeanSquare(call.arg.chunk)),
                               call.arg.threshold_db)]
  /\ pure_pc' = "returned"
  /\ UNCHANGED << recvars, libvars, pttvars, appvars, call >>

\* lines 19-30
ApplyGetInputDevices ==
  /\ pure_pc = "ready"
  /\ call.f = "get_input_devices"
  /\ ret' = [status |-> "returned", value |-> GetInputDevices(call.arg, 0)]
  /\ pure_pc' = "returned"
  /\ UNCHANGED << recvars, libvars, pttvars, appvars, call >>

PureNext ==
  \/ ApplyNormalize
  \/ NormalizeAgain
  \/ ApplyRmsToDb
  \/ ApplyLevelCheck
  \/ ApplyGetInputDevices

PureSpec == PureInit /\ [][PureNext]_vars

\* ------------------------------------------------ PushToTalk (hotkey.py)
\* _on_press or _on_release is called (lines 65-67, 77-79): from any thread
\* when the PushToTalk is driven directly, from the one thread of its
\* Listener (lines 102-106) when listen has started it (cli.py lines 109-112)
KeyEvent ==
  \E t \in Threads, kind \in {"press", "release"},
     key \in {"trigger", "other"} :
    /\ app = "hotkey" \/ (app = "listen" /\ t = 1)
    /\ h_pc[t] = "idle"
    /\ events < MaxEvents
    /\ events' = events + 1
    /\ h_ev' = [h_ev EXCEPT ![t] =
                 [kind |-> kind, key |-> key, n |-> events + 1]]
    /\ h_exc' = [h_exc EXCEPT ![t] = "none"]
    /\ h_pc' = [h_pc EXCEPT ![t] =
                 IF IsTriggerKey(key) THEN "acquire" ELSE "idle"]
    /\ UNCHANGED << recvars, libvars, purevars, appvars, active, lock,
                    cb_log >>

\* lines 68, 80: with self._lock
Acquire ==
  \E t \in Threads :
    /\ h_pc[t] = "acquire"
    /\ lock = 0
    /\ lock' = t
    /\ h_pc' = [h_pc EXCEPT ![t] = "check"]
    /\ UNCHANGED << recvars, libvars, purevars, appvars, active, h_ev,
                    cb_log, h_exc, events >>

\* lines 69, 81: the test of _active
Check ==
  \E t \in Threads :
    /\ h_pc[t] = "check"
    /\ h_pc' = [h_pc EXCEPT ![t] =
                 IF \/ h_ev[t].kind = "press" /\ PressFires(active)
                    \/ h_ev[t].kind = "release" /\ ReleaseFires(active)
                 THEN "set" ELSE "skip"]
    /\ UNCHANGED << recvars, libvars, purevars, appvars, active, lock, h_ev,
                    cb_log, h_exc, events >>

\* lines 70, 82
SetActive ==
  \E t \in Threads :
    /\ h_pc[t] = "set"
    /\ active' = (h_ev[t].kind = "press")
    /\ h_pc' = [h_pc EXCEPT ![t] = "call"]
    /\ UNCHANGED << recvars, libvars, purevars, appvars, lock, h_ev, cb_log,
                    h_exc, events >>

\* lines 73, 85: on_start or on_stop is entered
BeginCallback ==
  \E t \in Threads :
    /\ h_pc[t] = "call"
    /\ cb_log' = Append(cb_log, IF h_ev[t].kind = "press"
                                THEN "on_start" ELSE "on_stop")
    /\ h_pc' = [h_pc EXCEPT ![t] = "in_callback"]
    /\ UNCHANGED << recvars, libvars, purevars, appvars, active, lock, h_ev,
                    h_exc, events >>

\* what a callback can end with: a PushToTalk is given any two callables,
\* which return, raise an Exception, or raise a BaseException that is not
\* one (SystemExit, KeyboardInterrupt); those of listen (cli.py lines 68-74)
\* set or clear the event and then print, which returns or raises an
\* Exception
CallbackEnds ==
  IF app = "listen" THEN {"none", "Exception"}
  ELSE {"none", "Exception", "BaseException"}

CaughtNothing(exc) == FALSE

\* lines 74, 86: except Exception
Caught(exc) == exc = "Exception"

\* cli.py lines 68-74: on_start sets recording_event, on_stop clears it; the
\* callback returns, or raises; lines 74-75, 86-87 log what they catch, and
\* anything else leaves the try statement on its way out of the handler
EndCallback ==
  \E t \in Threads, exc \in CallbackEnds :
    /\ h_pc[t] = "in_callback"
    /\ recording_event' = (h_ev[t].kind = "press")
    /\ h_exc' = [h_exc EXCEPT ![t] = exc]
    /\ h_pc' = [h_pc EXCEPT ![t] =
                 IF exc = "none" \/ Caught(exc) THEN "unlock" ELSE "unwind"]
    /\ UNCHANGED << recvars, libvars, purevars, active, lock, h_ev, cb_log,
                    events, app, threadvars, flowvars >>

\* the end of the with block, reached by falling off it or by an exception
\* on its way out: the lock is released, and the handler returns or lets
\* the exception out to its caller
Unlock ==
  \E t \in Threads :
    /\ h_pc[t] \in {"skip", "unlock", "unwind"}
    /\ lock' = 0
    /\ h_pc' = [h_pc EXCEPT ![t] = "idle"]
    /\ UNCHANGED << recvars, libvars, purevars, appvars, active, h_ev,
                    cb_log, h_exc, events >>

HotkeyInit ==
  /\ RecorderIdle
  /\ PureIdle
  /\ PttInit
  /\ LibIdle
  /\ ThreadsInit
  /\ app = "hotkey"

HotkeyNext ==
  \/ KeyEvent
  \/ Acquire
  \/ Check
  \/ SetActive
  \/ BeginCallback
  \/ EndCallback
  \/ Unlock

HotkeySpec == HotkeyInit /\ [][HotkeyNext]_vars

\* a handler that has been entered goes on: its thread is scheduled, the
\* lock is granted when free, and the callback ends
HandlerStep ==
  Acquire \/ Check \/ SetActive \/ BeginCallback \/ EndCallback \/ Unlock

HotkeyFairSpec == HotkeySpec /\ WF_vars(HandlerStep)

\* ------------------------------------------- listen (cli.py), record thread
\* line 78: recording_event.wait() returns; line 79 calls the recorder
RecWake ==
  /\ app = "listen"
  /\ rec_pc = "wait"
  /\ recording_event
  /\ rec_made < MaxRecordings
  /\ rec_pc' = "recording"
  /\ UNCHANGED << recvars, libvars, purevars, pttvars, app, recording_event,
                  audio_ready, audio_data, proc_pc, rec_audio, proc_audio,
                  rec_made, stored, transcribed, flowvars >>

\* lines 79-80: record_until_silence returns a buffer, a new one or the
\* zero-length one of recorder.py lines 106-107, or raises RecorderError,
\* which nothing in record_loop catches; then the test len(audio) > 0
RecReturn ==
  /\ rec_pc = "recording"
  /\ \E out \in {"audio", "empty", "RecorderError"} :
       /\ rec_made' = IF out = "audio" THEN rec_made + 1 ELSE rec_made
       /\ rec_audio' = IF out = "audio" THEN rec_made + 1 ELSE 0
       /\ rec_pc' = IF out = "RecorderError" THEN "dead"
                    ELSE IF rec_audio' > 0 THEN "store" ELSE "wait"
  /\ UNCHANGED << recvars, libvars, purevars, pttvars, app, recording_event,
                  audio_ready, audio_data, proc_pc, proc_audio, stored,
                  transcribed, flowvars >>

\* line 81
RecStore ==
  /\ rec_pc = "store"
  /\ audio_data' = rec_audio
  /\ stored' = stored \cup {rec_audio}
  /\ rec_pc' = "signal"
  /\ UNCHANGED << recvars, libvars, purevars, pttvars, app, recording_event,
                  audio_ready, proc_pc, rec_audio, proc_audio, rec_made,
                  transcribed, flowvars >>

\* line 82
RecSignal ==
  /\ rec_pc = "signal"
  /\ audio_ready' = TRUE
  /\ rec_pc' = "wait"
  /\ UNCHANGED << recvars, libvars, purevars, pttvars, app, recording_event,
                  audio_data, proc_pc, rec_audio, proc_audio, rec_made,
                  stored, transcribed, flowvars >>

\* ------------------------------------------ listen (cli.py), process thread
\* line 89
ProcWake ==
  /\ app = "listen"
  /\ proc_pc = "wait"
  /\ audio_ready
  /\ proc_pc' = "clear"
  /\ UNCHANGED << recvars, libvars, purevars, pttvars, app, recording_event,
                  audio_ready, audio_data, rec_pc, rec_audio, proc_audio,
                  rec_made, stored, transcribed, flowvars >>

\* line 90
ProcClear ==
  /\ proc_pc = "clear"
  /\ audio_ready' = FALSE
  /\ proc_pc' = "pop"
  /\ UNCHANGED << recvars, libvars, purevars, pttvars, app, recording_event,
                  audio_data, rec_pc, rec_audio, proc_audio, rec_made,
                  stored, transcribed, flowvars >>

\* lines 91-94: the pop, the test for None, and transcribe entered
ProcPop ==
  /\ proc_pc = "pop"
  /\ proc_audio' = audio_data
  /\ audio_data' = 0
  /\ transcribed' = IF audio_data = 0 THEN transcribed
                    ELSE transcribed \cup {audio_data}
  /\ proc_pc' = IF audio_data = 0 THEN "wait" ELSE "transcribe"
  /\ UNCHANGED << recvars, libvars, purevars, pttvars, app, recording_event,
                  audio_ready, rec_pc, rec_audio, rec_made, stored,
                  flowvars >>

\* lines 94-101: transcribe returns; the text is cleaned and delivered
ProcDeliver ==
  /\ proc_pc = "transcribe"
  /\ proc_pc' = "wait"
  /\ UNCHANGED << recvars, libvars, purevars, pttvars, app, recording_event,
                  audio_ready, audio_data, rec_pc, rec_audio, proc_audio,
                  rec_made, stored, transcribed, flowvars >>

\* ------------------------------------------------ record_voice (mcp_server.py)
\* the model sizes and output modes a caller may ask for, valid or not
AskedModels == {"base", "large"}
AskedModes == {"clipboard", "email"}

\* what a transcription can come to: no speech, or some words
Transcripts == {"", "hi"}

CleanAlways(clean_text) == TRUE

\* line 49
CleanCalled(clean_text) == clean_text

\* lines 19-44: the server starts the coroutine of a tools/call request with
\* its arguments; it hands record_until_silence to a worker thread and awaits
\* it, which leaves the event loop free to start the next request
McpInvoke ==
  \E r \in 1..MaxRequests, model \in AskedModels, clean_text \in BOOLEAN :
    /\ app = "mcp"
    /\ mcp_pc[r] = "idle"
    /\ mcp_pc' = [mcp_pc EXCEPT ![r] = "recording"]
    /\ mcp' = [mcp EXCEPT ![r] =
                 [NoFlow EXCEPT !.model = model, !.clean_text = clean_text,
                                !.log = << "record_until_silence" >>]]
    /\ UNCHANGED << recvars, libvars, purevars, pttvars, app, recording_event,
                    threadvars, say_pc, say >>

\* lines 42-47: the recorder raises, and nothing in record_voice catches it,
\* or it returns a buffer, a zero-length one included, and transcribe is
\* handed to a worker thread with it
McpRecorded ==
  \E r \in 1..MaxRequests, out \in {"audio", "empty", "RecorderError"} :
    /\ mcp_pc[r] = "recording"
    /\ mcp_pc' = [mcp_pc EXCEPT ![r] =
                   IF out = "RecorderError" THEN "failed" ELSE "transcribing"]
    /\ mcp' = [mcp EXCEPT ![r] =
                 IF out = "RecorderError"
                 THEN [@ EXCEPT !.outcome = "RecorderError"]
                 ELSE [@ EXCEPT !.audio = IF out = "audio" THEN 1 ELSE 0,
                                !.io = @ \cup {"InputStream"},
                                !.log = Append(@, "transcribe")]]
    /\ UNCHANGED << recvars, libvars, purevars, pttvars, app, recording_event,
                    threadvars, say_pc, say >>

\* lines 47-53: transcribe raises the ValueError of get_model, or loads the
\* model and returns the text; the text is cleaned when clean_text is set
McpTranscribed ==
  \E r \in 1..MaxRequests, text \in Transcripts :
    /\ mcp_pc[r] = "transcribing"
    /\ mcp_pc' = [mcp_pc EXCEPT ![r] =
                   IF mcp[r].model \in VALID_MODEL_SIZES
                   THEN "done" ELSE "failed"]
    /\ mcp' = [mcp EXCEPT ![r] =
                 IF mcp[r].model \in VALID_MODEL_SIZES
                 THEN [@ EXCEPT !.text = text,
                                !.io = @ \cup {"WhisperModel"},
                                !.log = IF CleanCalled(mcp[r].clean_text)
                                        THEN Append(@, "clean") ELSE @,
                                !.outcome = "returned"]
                 ELSE [@ EXCEPT !.outcome = "ValueError"]]
    /\ UNCHANGED << recvars, libvars, purevars, pttvars, app, recording_event,
                    threadvars, say_pc, say >>

\* ------------------------------------------------------------ say (cli.py)
\* lines 122-136: click.Choice
ChoiceAccepts(value, choices) == value \in choices

\* lines 121-150: click converts the options, and ends the command with a
\* usage error before the body runs when one is not among its choices; else
\* the body calls the recorder
SayInvoke ==
  \E model \in AskedModels, output_mode \in AskedModes, no_clean \in BOOLEAN :
    /\ app = "say"
    /\ say_pc = "idle"
    /\ IF /\ ChoiceAccepts(model, VALID_MODEL_SIZES)
          /\ ChoiceAccepts(output_mode, VALID_MODES)
       THEN /\ say_pc' = "recording"
            /\ say' = [NoFlow EXCEPT !.model = model,
                                     !.output_mode = output_mode,
                                     !.no_clean = no_clean,
                                     !.log = << "record_until_silence" >>]
       ELSE /\ say_pc' = "failed"
            /\ say' = [NoFlow EXCEPT !.model = model,
                                     !.output_mode = output_mode,
                                     !.no_clean = no_clean,
                                     !.outcome = "UsageError"]
    /\ UNCHANGED << recvars, libvars, purevars, pttvars, app, recording_event,
                    threadvars, mcp_pc, mcp >>

\* lines 146-160: the recorder raises RecorderError, which say lets through,
\* or KeyboardInterrupt, on which say returns; or it returns a buffer, and
\* say returns on a zero-length one and calls transcribe on any other
SayRecorded ==
  \E out \in {"audio", "empty", "RecorderError", "KeyboardInterrupt"} :
    /\ say_pc = "recording"
    /\ say_pc' = CASE out = "audio" -> "transcribing"
                   [] out = "RecorderError" -> "failed"
                   [] OTHER -> "done"
    /\ say' = CASE out = "audio" ->
                     [say EXCEPT !.audio = 1,
                                 !.io = @ \cup {"InputStream"},
                                 !.log = Append(@, "transcribe")]
                [] out = "empty" ->
                     [say EXCEPT !.io = @ \cup {"InputStream"},
                                 !.outcome = "returned"]
                [] out = "KeyboardInterrupt" ->
                     [say EXCEPT !.io = @ \cup {"InputStream"},
                                 !.outcome = "returned"]
                [] OTHER -> [say EXCEPT !.outcome = "RecorderError"]
    /\ UNCHANGED << recvars, libvars, purevars, pttvars, app, recording_event,
                    threadvars, mcp_pc, mcp >>

\* lines 160-169: the text is cleaned when there is some and --no-clean is
\* not given, and delivered when there is some
SayTranscribed ==
  \E text \in Transcripts :
    /\ say_pc = "transcribing"
    /\ say_pc' = "done"
    /\ say' = [say EXCEPT
                 !.text = text,
                 !.io = @ \cup {"WhisperModel"}
                          \cup (IF text # "" THEN {"deliver"} ELSE {}),
                 !.log = @ \o (IF text # "" /\ ~say.no_clean
                               THEN << "clean" >> ELSE << >>)
                           \o (IF text # "" THEN << "deliver" >> ELSE << >>),
                 !.outcome = "returned"]
    /\ UNCHANGED << recvars, libvars, purevars, pttvars, app, recording_event,
                    threadvars, mcp_pc, mcp >>

AppInit ==
  /\ RecorderIdle
  /\ PureIdle
  /\ PttInit
  /\ LibIdle
  /\ ThreadsInit
  /\ app \in {"listen", "mcp", "say"}

AppNext ==
  \/ HotkeyNext
  \/ RecWake
  \/ RecReturn
  \/ RecStore
  \/ RecSignal
  \/ ProcWake
  \/ ProcClear
  \/ ProcPop
  \/ ProcDeliver
  \/ McpInvoke
  \/ McpRecorded
  \/ McpTranscribed
  \/ SayInvoke
  \/ SayRecorded
  \/ SayTranscribed

AppSpec == AppInit /\ [][AppNext]_vars

\* ------------------------------------------------------------ output.py
OutCalls ==
  { [f |-> "deliver", mode |-> m, text |-> t] :
      m \in VALID_MODES \cup {"email"}, t \in Texts }
  \cup { [f |-> g, mode |-> "none", text |-> t] :
            g \in {"to_clipboard", "to_stdout", "to_paste"}, t \in Texts }

\* the function of output.py that is running
Running ==
  IF out_call.f = "deliver" /\ out_call.mode \in VALID_MODES
  THEN Dispatch(out_call.mode)
  ELSE out_call.f

OutInit ==
  /\ RecorderIdle
  /\ PureIdle
  /\ PttInit
  /\ ModelsIdle
  /\ AppIdle
  /\ out_call \in OutCalls
  /\ out_pc = IF out_call.f = "deliver" THEN "deliver"
              ELSE IF out_call.f = "to_stdout" THEN "write" ELSE "copy"
  /\ clipboard \in ClipboardBefore
  /\ out_log = <<>>
  /\ out_outcome = "none"

\* lines 59-67: deliver checks the mode, then dispatches
DeliverDispatch ==
  /\ out_pc = "deliver"
  /\ IF out_call.mode \notin VALID_MODES
     THEN out_outcome' = "ValueError" /\ out_pc' = "done"
     ELSE /\ out_outcome' = out_outcome
          /\ out_pc' = IF Dispatch(out_call.mode) = "to_stdout"
                       THEN "write" ELSE "copy"
  /\ UNCHANGED << recvars, purevars, pttvars, appvars, gmvars, out_call,
                  clipboard, out_log >>

\* lines 19-25: to_clipboard; pyperclip.copy works or raises
ClipboardCopy ==
  /\ out_pc = "copy"
  /\ \E ok \in BOOLEAN :
       LET nxt == NextAfterCopy(Running, ok)
       IN  /\ clipboard' = IF ok THEN out_call.text ELSE clipboard
           /\ out_log' = Append(out_log, IF ok THEN "copy" ELSE "copy_failed")
           /\ out_outcome' = CASE nxt = "raise" -> "OutputError"
                                [] nxt = "return" -> "returned"
                                [] OTHER -> out_outcome
           /\ out_pc' = IF nxt = "keys" THEN "keys" ELSE "done"
  /\ UNCHANGED << recvars, purevars, pttvars, appvars, gmvars, out_call >>

\* lines 28-31
StdoutWrite ==
  /\ out_pc = "write"
  /\ out_log' = Append(out_log, "write")
  /\ out_outcome' = "returned"
  /\ out_pc' = "done"
  /\ UNCHANGED << recvars, purevars, pttvars, appvars, gmvars, out_call,
                  clipboard >>

\* lines 39-43: the import, Controller() and the press of the modifier, any
\* of which may raise (lines 46-49 turn it into OutputError)
PressModifier ==
  /\ out_pc = "keys"
  /\ \E ok \in BOOLEAN :
       IF ok
       THEN /\ out_log' = Append(out_log, "press")
            /\ out_pc' = "pressed"
            /\ out_outcome' = out_outcome
       ELSE /\ out_log' = Append(out_log, "keys_failed")
            /\ out_pc' = "done"
            /\ out_outcome' = "OutputError"
  /\ UNCHANGED << recvars, purevars, pttvars, appvars, gmvars, out_call,
                  clipboard >>

\* line 44: kb.tap("v") works or raises
TapV ==
  /\ out_pc = "pressed"
  /\ \E ok \in BOOLEAN :
       /\ out_log' = Append(out_log, IF ok THEN "tap" ELSE "keys_failed")
       /\ out_pc' = IF ok THEN "tapped" ELSE "tap_failed"
  /\ UNCHANGED << recvars, purevars, pttvars, appvars, gmvars, out_call,
                  clipboard, out_outcome >>

\* line 43: the modifier is released on the way out of the with block,
\* after a tap that worked or raised; the release works or raises
ReleaseModifier ==
  /\ out_pc \in {"tapped", "tap_failed"}
  /\ \E ok \in BOOLEAN :
       /\ out_log' = Append(out_log, IF ok THEN "release" ELSE "keys_failed")
       /\ out_outcome' = IF ok /\ out_pc = "tapped"
                         THEN "returned" ELSE "OutputError"
  /\ out_pc' = "done"
  /\ UNCHANGED << recvars, purevars, pttvars, appvars, gmvars, out_call,
                  clipboard >>

OutNext ==
  \/ DeliverDispatch
  \/ ClipboardCopy
  \/ StdoutWrite
  \/ PressModifier
  \/ TapV
  \/ ReleaseModifier

OutSpec == OutInit /\ [][OutNext]_vars

\* --------------------------------------------- transcriber.py, get_model
GmInit ==
  /\ RecorderIdle
  /\ PureIdle
  /\ PttInit
  /\ OutIdle
  /\ ModelsIdle
  /\ AppIdle

\* line 28: a thread calls get_model(model_size)
GmCall ==
  \E w \in Workers, m \in ModelSizes :
    /\ gm_pc[w] = "idle"
    /\ Len(gm_ret[w]) < MaxGetCalls
    /\ gm_arg' = [gm_arg EXCEPT ![w] = m]
    /\ gm_pc' = [gm_pc EXCEPT ![w] = "validate"]
    /\ UNCHANGED << recvars, purevars, pttvars, appvars, outvars, models,
                    gm_ret, constructed >>

\* lines 40-44
GmValidate ==
  \E w \in Workers :
    /\ gm_pc[w] = "validate"
    /\ IF gm_arg[w] \notin VALID_MODEL_SIZES
       THEN /\ gm_ret' = [gm_ret EXCEPT ![w] =
                          Append(@, [model_size |-> gm_arg[w],
                                     status |-> "ValueError",
                                     instance |-> 0])]
            /\ gm_pc' = [gm_pc EXCEPT ![w] = "idle"]
       ELSE /\ gm_ret' = gm_ret
            /\ gm_pc' = [gm_pc EXCEPT ![w] = "lookup"]
    /\ UNCHANGED << recvars, purevars, pttvars, appvars, outvars, models,
                    gm_arg, constructed >>

\* line 46: if model_size not in _models
GmLookup ==
  \E w \in Workers :
    /\ gm_pc[w] = "lookup"
    /\ gm_pc' = [gm_pc EXCEPT ![w] =
                  IF models[gm_arg[w]] = 0 THEN "construct" ELSE "return"]
    /\ UNCHANGED << recvars, purevars, pttvars, appvars, outvars, models,
                    gm_arg, gm_ret, constructed >>

\* lines 47-56: a WhisperModel is constructed and stored; instances are
\* numbered in the order of their construction
GmConstruct ==
  \E w \in Workers :
    /\ gm_pc[w] = "construct"
    /\ constructed' = Append(constructed, gm_arg[w])
    /\ models' = [models EXCEPT ![gm_arg[w]] = Len(constructed) + 1]
    /\ gm_pc' = [gm_pc EXCEPT ![w] = "return"]
    /\ UNCHANGED << recvars, purevars, pttvars, appvars, outvars, gm_arg,
                    gm_ret >>

\* line 58
GmReturn ==
  \E w \in Workers :
    /\ gm_pc[w] = "return"
    /\ gm_ret' = [gm_ret EXCEPT ![w] =
                   Append(@, [model_size |-> gm_arg[w],
                              status |-> "returned",
                              instance |-> models[gm_arg[w]]])]
    /\ gm_pc' = [gm_pc EXCEPT ![w] = "idle"]
    /\ UNCHANGED << recvars, purevars, pttvars, appvars, outvars, models,
                    gm_arg, constructed >>

GmNext ==
  \/ GmCall
  \/ GmValidate
  \/ GmLookup
  \/ GmConstruct
  \/ GmReturn

GmSpec == GmInit /\ [][GmNext]_vars

\* ------------------------------- listen with the recorder it calls
\* cli.py line 79 calls record_until_silence(device=device): threshold_db,
\* silence_duration and max_duration are the defaults of recorder.py lines
\* 53-55, a window shorter than the maximum, and blocks of BLOCK_SIZE, the
\* unit of length here
ListenInit ==
  /\ PureIdle
  /\ PttInit
  /\ LibIdle
  /\ ThreadsInit
  /\ app = "listen"
  /\ fn = "record_until_silence"
  /\ query \in QueryOutcomes
  /\ threshold_db = [above_floor |-> TRUE, sq |-> 3]
  /\ silent_samples_needed = MaxNeeded
  /\ max_samples = MaxSamples
  /\ blocksize = 1
  /\ num_frames = 0
  /\ duration_seconds = [num |-> 0, den |-> 1]
  /\ caller = "listen"
  /\ cancel_requested = FALSE
  /\ calls = 0
  /\ pc = "idle"
  /\ stream = "none"
  /\ driver_calls = <<>>
  /\ driver_error = FALSE
  /\ delivered = <<>>
  /\ audio_queue = <<>>
  /\ chunks = <<>>
  /\ silent_samples = 0
  /\ total_samples = 0
  /\ stop = "none"
  /\ recording = <<>>
  /\ outcome = "none"
  /\ result = <<>>
  /\ rec_frames = <<>>

\* cli.py lines 78-79: recording_event.wait() returns and the record thread
\* enters record_until_silence
RecCall ==
  /\ app = "listen"
  /\ rec_pc = "wait"
  /\ recording_event
  /\ pc = "idle"
  /\ calls < MaxCalls
  /\ calls' = calls + 1
  /\ rec_pc' = "recording"
  /\ pc' = "ensure"
  /\ UNCHANGED << params, duration_seconds, caller, cancel_requested,
                  stream, driver_calls, driver_error, delivered, audio_queue,
                  session, recording, outcome, result, rec_frames,
                  purevars, pttvars, libvars, app, recording_event,
                  audio_ready, audio_data, proc_pc, rec_audio, proc_audio,
                  rec_made, stored, transcribed, flowvars >>

\* cli.py lines 79-80: the call returns its buffer, or raises RecorderError
\* and ends the record thread; the frame of the call and its locals are gone
RecDone ==
  /\ rec_pc = "recording"
  /\ pc = "done"
  /\ pc' = "idle"
  /\ rec_pc' = IF outcome = "returned" /\ Len(result) > 0
               THEN "store"
               ELSE IF outcome = "returned" THEN "wait" ELSE "dead"
  /\ rec_made' = IF outcome = "returned" /\ Len(result) > 0
                 THEN rec_made + 1 ELSE rec_made
  /\ rec_audio' = IF outcome = "returned" /\ Len(result) > 0
                  THEN rec_made + 1 ELSE 0
  /\ audio_queue' = <<>>
  /\ chunks' = <<>>
  /\ silent_samples' = 0
  /\ total_samples' = 0
  /\ stream' = "none"
  /\ driver_calls' = <<>>
  /\ driver_error' = FALSE
  /\ delivered' = <<>>
  /\ stop' = "none"
  /\ outcome' = "none"
  /\ result' = <<>>
  /\ UNCHANGED << params, duration_seconds, caller, cancel_requested, calls,
                  recording, rec_frames, purevars, pttvars, libvars, app,
                  recording_event, audio_ready, audio_data, proc_pc,
                  proc_audio, stored, transcribed, flowvars >>

ListenNext ==
  \/ HotkeyNext
  \/ RecCall
  \/ Ensure
  \/ OpenStream
  \/ Deliver
  \/ GetTimeout
  \/ ProcessBlock
  \/ ExitStream
  \/ Finalize
  \/ RecDone
  \/ RecStore
  \/ RecSignal
  \/ ProcWake
  \/ ProcClear
  \/ ProcPop
  \/ ProcDeliver

ListenSpec == ListenInit /\ [][ListenNext]_vars

TypeOK ==
  /\ pc \in {"ensure", "open", "loop", "exit", "finalize", "rec", "wait",
             "finalize_rec", "done"}
  /\ stream \in {"none", "open", "closed"}
  /\ stop \in {"none", "silence", "max"}
  /\ outcome \in {"none", "returned", "RecorderError", "PortAudioError",
                  "KeyboardInterrupt"}
  /\ calls \in 1..MaxCalls
  /\ Len(delivered) <= MaxDelivered

\* ------------------------------------------------- vocabulary of the claims
\* the block's level is below threshold_db (written from the arithmetic:
\* an all-zero block sits at the floor, any other compares mean squares)
Below(chunk) ==
  IF SumSq(chunk) = 0
  THEN threshold_db.above_floor
  ELSE SumSq(chunk) < threshold_db.sq * Len(chunk)

AllBelow(cs) == \A i \in 1..Len(cs) : Below(cs[i])

NoneBelow(cs) == \A i \in 1..Len(cs) : ~Below(cs[i])

\* summed length of the run of below-threshold blocks that ends the sequence
RECURSIVE TrailingSilent(_)
TrailingSilent(cs) ==
  IF cs = <<>> THEN 0
  ELSE IF Below(cs[Len(cs)])
       THEN Len(cs[Len(cs)]) + TrailingSilent(SubSeq(cs, 1, Len(cs) - 1))
       ELSE 0

\* the summed length of a sequence of blocks
RECURSIVE SumLen(_)
SumLen(cs) ==
  IF cs = <<>> THEN 0 ELSE Len(Head(cs)) + SumLen(Tail(cs))

\* total_samples after the first k blocks
TotalAfter(k) == SumLen(SubSeq(chunks, 1, k))

\* at least one block has been processed
Processed == fn = "record_until_silence" /\ Len(chunks) > 0

Stopped == stop # "none"

\* r is audio scaled to unit peak (audio unchanged when it is all zero)
IsNormalizationOf(r, audio) ==
  LET peak == PeakAbs(audio)
  IN  /\ Len(r) = Len(audio)
      /\ \A i \in 1..Len(audio) :
           /\ r[i].den > 0
           /\ IF peak > 0
              THEN r[i].num * peak = audio[i] * r[i].den
              ELSE r[i].num = audio[i] * r[i].den

\* ------------------------------------------------------------------- C1
\* C1 (as stated): after a block is appended and counted, capture stops on
\* it iff (silent_samples >= silent_samples_needed and total_samples >
\* silent_samples_needed) or total_samples >= max_samples, else the loop
\* goes on; and an all-below-threshold stream stops at the first block after
\* which total_samples exceeds silent_samples_needed and on no earlier one.
C1_Orig ==
  Processed =>
    /\ Stopped <=>
         \/ /\ silent_samples >= silent_samples_needed
            /\ total_samples > silent_samples_needed
         \/ total_samples >= max_samples
    /\ ~Stopped => pc = "loop"
    /\ AllBelow(chunks) =>
         /\ Stopped <=> total_samples > silent_samples_needed
         /\ \A k \in 1..(Len(chunks) - 1) :
              ~(TotalAfter(k) > silent_samples_needed)

\* C1 (amended): the stop rule as stated; an all-below-threshold stream
\* stops at the first block after which total_samples exceeds
\* silent_samples_needed or reaches max_samples, and on no earlier block.
C1_StopRule ==
  Processed =>
    /\ Stopped <=>
         \/ /\ silent_samples >= silent_samples_needed
            /\ total_samples > silent_samples_needed
         \/ total_samples >= max_samples
    /\ ~Stopped => pc = "loop"
    /\ AllBelow(chunks) =>
         /\ Stopped <=> \/ total_samples > silent_samples_needed
                        \/ total_samples >= max_samples
         /\ \A k \in 1..(Len(chunks) - 1) :
              /\ ~(TotalAfter(k) > silent_samples_needed)
              /\ ~(TotalAfter(k) >= max_samples)

\* an all-silent stream cut by the maximum inside the silence window
C1_Witness ==
  /\ Processed
  /\ Len(chunks) >= 2
  /\ AllBelow(chunks)
  /\ stop = "max"
  /\ total_samples <= silent_samples_needed

\* ------------------------------------------------------------------- C2
\* C2: silent_samples equals the summed length of the maximal run of
\* consecutive below-threshold blocks that ends with the most recent block
\* (zero when that block was at or above threshold).
C2_SilentRun ==
  fn = "record_until_silence" => silent_samples = TrailingSilent(chunks)

\* silence, a loud block that resets the counter, silence again
C2_Witness ==
  /\ Len(chunks) = 3
  /\ Below(chunks[1])
  /\ ~Below(chunks[2])
  /\ Below(chunks[3])
  /\ silent_samples = Len(chunks[3])

\* ------------------------------------------------------------------- C3
\* C3 (as stated): whenever, after a block, accumulated silence >= the
\* silence duration and total captured >= that same duration (equality
\* included), the session stops on that block.
C3_Orig ==
  (Processed /\ silent_samples >= silent_samples_needed
             /\ total_samples >= silent_samples_needed) => Stopped

\* C3 (amended): the session stops on the block after which accumulated
\* silence >= the silence duration and total captured > that duration; when
\* total captured is exactly equal to it (and below the maximum) the session
\* does not stop on that block.
C3_StrictTotal ==
  Processed =>
    /\ (silent_samples >= silent_samples_needed
          /\ total_samples > silent_samples_needed) => stop = "silence"
    /\ (silent_samples >= silent_samples_needed
          /\ total_samples = silent_samples_needed
          /\ total_samples < max_samples) => (stop = "none" /\ pc = "loop")

\* silence and total both exactly at the window, and the loop goes on
C3_Witness ==
  /\ Processed
  /\ silent_samples_needed > 0
  /\ silent_samples = silent_samples_needed
  /\ total_samples = silent_samples_needed
  /\ pc = "loop"

\* ------------------------------------------------------------------- C4
\* C4: a session in which no block so far has been at or above threshold_db
\* is never ended by the silence condition.
\* (Taken with a positive silence window and below the maximum, so that the
\* stop shown is one only the silence condition can have caused.)
C4_Claim ==
  (Processed /\ AllBelow(chunks) /\ silent_samples_needed > 0
             /\ total_samples < max_samples) => stop # "silence"

\* ------------------------------------------------------------------- C5
\* C5 (as stated): on a stream with no block below threshold_db the session
\* stops exactly when total samples reach max_samples: on no earlier block,
\* and at the stop total_samples equals max_samples.  (Taken with a positive
\* silence window, so that the violation shown is about the maximum.)
C5_Orig ==
  (Processed /\ NoneBelow(chunks) /\ silent_samples_needed > 0) =>
    /\ Stopped <=> total_samples >= max_samples
    /\ Stopped => total_samples = max_samples

\* C5 (amended): on such a stream, with a silence window of at least one
\* sample, the session stops on the first block after which total_samples
\* >= max_samples; at the stop max_samples <= total_samples < max_samples +
\* the length of the stopping block.
C5_StopsAtMax ==
  (Processed /\ NoneBelow(chunks) /\ silent_samples_needed > 0) =>
    /\ Stopped <=> total_samples >= max_samples
    /\ Stopped =>
         /\ stop = "max"
         /\ max_samples <= total_samples
         /\ total_samples - Len(chunks[Len(chunks)]) < max_samples
    /\ \A k \in 1..(Len(chunks) - 1) : TotalAfter(k) < max_samples

\* a never-silent stream stopped past the maximum
C5_Witness ==
  /\ Processed
  /\ NoneBelow(chunks)
  /\ silent_samples_needed > 0
  /\ stop = "max"
  /\ total_samples > max_samples

C7_ResultIsDeliveredPrefix ==
  (fn = "record_until_silence" /\ outcome = "returned") =>
    LET k == Len(chunks)
    IN  /\ Stopped
        /\ 1 <= k /\ k <= Len(delivered)
        /\ chunks = SubSeq(delivered, 1, k)
        /\ IsNormalizationOf(result, Concatenate(SubSeq(delivered, 1, k)))

\* a normal return of several blocks with a later block left in the queue
C7_Witness ==
  /\ fn = "record_until_silence"
  /\ outcome = "returned"
  /\ Len(chunks) >= 2
  /\ chunks[1] # chunks[2]
  /\ Len(delivered) > Len(chunks)
  /\ PeakAbs(Concatenate(chunks)) > 0

MicUsable == query.kind = "info" /\ query.channels >= 1

\* C9: the device check comes before any stream: both functions query the
\* device first, and when it reports zero input channels or cannot be
\* queried, RecorderError is raised, no stream is opened and no recording
\* is requested.
C9_CheckFirst ==
  /\ driver_calls # <<>> => driver_calls[1] = "query_devices"
  /\ \A i \in 1..Len(driver_calls) :
       driver_calls[i] \in {"InputStream", "rec", "wait"} => (i > 1 /\ MicUsable)
  /\ (pc # "ensure" /\ ~MicUsable) =>
       /\ pc = "done"
       /\ outcome = "RecorderError"
       /\ stream = "none"
       /\ driver_calls = << "query_devices" >>

\* a device with zero input channels was refused
C9_Witness ==
  /\ pc = "done"
  /\ query = [kind |-> "info", channels |-> 0]
  /\ outcome = "RecorderError"

\* ------------------------------------------------------------------ C10
\* C10: if the stream delivers zero blocks, record_until_silence returns an
\* explicit empty result rather than raising or never returning: a session
\* waiting in its loop with nothing delivered eventually returns the empty
\* buffer, unless a block arrives after all.
C10_Claim ==
  (pc = "loop" /\ delivered = <<>>) ~>
    ((outcome = "returned" /\ result = <<>>) \/ delivered # <<>>)

\* every normal return of record_until_silence carries at least one block
EmptyReturnUnreachable ==
  (fn = "record_until_silence" /\ outcome = "returned") => chunks # <<>>

\* ------------------------------------------------------------------ C11
\* C11: while the open stream keeps delivering non-empty blocks and the
\* consumer keeps being scheduled, every record_until_silence session in its
\* loop eventually stops and returns (raising RecorderError instead only if
\* the driver fails while the stream is closed), having gone at most one
\* block past max_samples, whatever the levels of the blocks are.
C11_RunsToCompletion ==
  (fn = "record_until_silence" /\ pc = "loop") ~>
    /\ Stopped
    /\ pc = "done"
    /\ outcome = "returned" \/ driver_error
    /\ total_samples - blocksize < max_samples

\* a session that ran to its maximum on blocks that were never silent
C11_Witness ==
  /\ fn = "record_until_silence"
  /\ outcome = "returned"
  /\ stop = "max"
  /\ NoneBelow(chunks)
  /\ Len(chunks) >= 2

\* ------------------------------------------------------------------ C13
\* C13: the stream opened by record_until_silence is closed on every way out
\* of the capture loop, on a normal stop before the buffer is concatenated
\* and normalized; no stream remains open once the function has returned or
\* raised.
C13_StreamClosed ==
  fn = "record_until_silence" =>
    /\ pc = "done" => stream # "open"
    /\ pc = "finalize" => stream = "closed"
    /\ outcome = "returned" => stream = "closed"
    /\ (Stopped /\ pc = "done") => stream = "closed"

\* the driver failed while the with block was left, after a stop
C13_Witness ==
  /\ fn = "record_until_silence"
  /\ Stopped
  /\ pc = "done"
  /\ outcome = "RecorderError"
  /\ stream = "closed"

\* ------------------------------------------------------------------ C12
\* C12: once a caller requests cancellation of an in-flight
\* record_until_silence session, the consumer observes it at a queue-read
\* timeout and the session ends (stream closed, nothing transcribed or
\* delivered) even if the device delivers no further block.
C12_Claim ==
  (cancel_requested /\ pc = "loop") ~> (pc = "done" /\ stream = "closed")

\* in say the KeyboardInterrupt does end the session with the stream closed
SayInterruptEnds ==
  (caller = "say" /\ cancel_requested /\ pc = "loop") ~>
    (pc = "done" /\ stream = "closed")

\* ------------------------------------------------------------------ C17
\* the whole number of samples in duration_seconds, from its definition
IsWholeSamples(k, duration) ==
  /\ k * duration.den <= duration.num * 16000
  /\ duration.num * 16000 < (k + 1) * duration.den

C18_FreshSession ==
  /\ pc \in {"open", "rec"} =>
       /\ chunks = <<>>
       /\ audio_queue = <<>>
       /\ silent_samples = 0
       /\ total_samples = 0
  /\ (fn = "record_until_silence" /\ pc # "ensure") =>
       /\ Len(chunks) <= Len(delivered)
       /\ chunks = SubSeq(delivered, 1, Len(chunks))
       /\ audio_queue = SubSeq(delivered, Len(chunks) + 1, Len(delivered))
       /\ total_samples = SumLen(chunks)
       /\ silent_samples = TrailingSilent(chunks)
  /\ (fn = "record_until_silence" /\ outcome = "returned") =>
       IsNormalizationOf(result,
                         Concatenate(SubSeq(delivered, 1, Len(chunks))))

\* a second session that returned, with blocks of its own left in the queue
C18_Witness ==
  /\ calls = 2
  /\ fn = "record_until_silence"
  /\ outcome = "returned"
  /\ Len(delivered) > Len(chunks)

\* the second call is about to start and the first left blocks behind
LeftoversBeforeSecondCall ==
  /\ calls = 2
  /\ pc = "ensure"
  /\ audio_queue # <<>>
  /\ chunks # <<>>

\* ------------------------------------------------------------------ C14
IsZeroBuffer(audio) == \A i \in 1..Len(audio) : audio[i].num = 0

PeakIsOne(audio) ==
  /\ \E i \in 1..Len(audio) : Abs(audio[i].num) = audio[i].den
  /\ \A i \in 1..Len(audio) : Abs(audio[i].num) <= audio[i].den

\* C14: _normalize is idempotent and safe on silence: for a buffer with a
\* non-zero sample the peak absolute value of the result is exactly 1 and
\* normalizing the result again returns it; an all-zero buffer is returned
\* unchanged; the output length always equals the input length.
C14_Claim ==
  (call.f \in {"_normalize", "_normalize again"} /\ pure_pc = "returned") =>
    /\ ret.status = "returned"
    /\ Len(ret.value) = Len(call.arg)
    /\ ~IsZeroBuffer(call.arg) => PeakIsOne(ret.value)
    /\ IsZeroBuffer(call.arg) => ret.value = call.arg
    /\ call.f = "_normalize again" => ret.value = call.arg

\* all of it holds of every buffer that has a sample
NormalizeNonEmpty == call.arg # <<>> => C14_Claim

\* ------------------------------------------------------------------ C15
\* C15: _rms_to_db returns exactly the floor (-120.0) for every rms that is
\* zero or negative, so an all-zero block is measured at the floor and is
\* below threshold for every threshold_db greater than -120.
C15_FloorForNonPositive ==
  /\ (call.f = "_rms_to_db" /\ pure_pc = "returned" /\ call.arg.num <= 0) =>
       ret.value = FloorLevel
  /\ (call.f = "level_check" /\ pure_pc = "returned"
        /\ SumSq(call.arg.chunk) = 0) =>
       /\ RmsToDb(MeanSquare(call.arg.chunk)) = FloorLevel
       /\ call.arg.threshold_db.above_floor => ret.value = TRUE

\* the level of a zero rms has been taken
C15_Witness ==
  /\ call.f = "_rms_to_db"
  /\ pure_pc = "returned"
  /\ call.arg.num = 0
  /\ ret.value = FloorLevel

\* an all-zero block of two samples compared with a threshold above -120
LevelCheckOfZeroBlock ==
  /\ call.f = "level_check"
  /\ pure_pc = "returned"
  /\ Len(call.arg.chunk) = 2
  /\ SumSq(call.arg.chunk) = 0
  /\ call.arg.threshold_db.above_floor
  /\ ret.value = TRUE

\* ------------------------------------------------------------------ C16
\* C16: get_input_devices returns exactly the platform devices with at least
\* one input channel, in enumeration order, each with its position in the
\* unfiltered list as index; devices without input channels never appear and
\* the result is empty when none qualifies; channels [2, 0, 1] give indices
\* [0, 2].
C16_InputDevices ==
  /\ GetInputDevices(<< 2, 0, 1 >>, 0) =
       << [index |-> 0, channels |-> 2], [index |-> 2, channels |-> 1] >>
  /\ (call.f = "get_input_devices" /\ pure_pc = "returned") =>
       LET devices == call.arg
           r == ret.value
       IN  /\ ret.status = "returned"
           /\ \A k \in 1..Len(r) :
                /\ r[k].index \in 0..(Len(devices) - 1)
                /\ r[k].channels = devices[r[k].index + 1]
                /\ r[k].channels > 0
           /\ \A k \in 1..(Len(r) - 1) : r[k].index < r[k + 1].index
           /\ \A i \in 1..Len(devices) :
                devices[i] > 0 => \E k \in 1..Len(r) : r[k].index = i - 1
           /\ (\A i \in 1..Len(devices) : devices[i] = 0) => r = <<>>

\* an output-only device between two input devices
C16_Witness ==
  /\ call.f = "get_input_devices"
  /\ pure_pc = "returned"
  /\ Len(call.arg) = 3
  /\ call.arg[1] > 0
  /\ call.arg[2] = 0
  /\ call.arg[3] > 0
  /\ Len(ret.value) = 2

\* ------------------------------------------------------------------ C19
\* the record_until_silence calls that are active
Capturing ==
  (IF rec_pc = "recording" THEN 1 ELSE 0)
    + Cardinality({ r \in 1..MaxRequests : mcp_pc[r] = "recording" })

\* C19: at most one capture session is active at any time: no interleaving
\* of hotkey events in listen and no interleaving of record_voice
\* invocations in the MCP server leads to two record_until_silence calls
\* being active at once.
C19_Claim == Capturing <= 1

\* listen has one record thread, so one session at a time
ListenOneSession == app = "listen" => Capturing <= 1

\* ------------------------------------------------------------------ C20
InCallback == { t \in Threads : h_pc[t] = "in_callback" }

\* C20: for any sequence and any thread interleaving of trigger-key press
\* and release events, on_start and on_stop strictly alternate beginning
\* with on_start and their executions never overlap; a press while active
\* fires no on_start and a release while inactive fires no on_stop.
C20_Alternation ==
  /\ \A i \in 1..Len(cb_log) :
       cb_log[i] = IF i % 2 = 1 THEN "on_start" ELSE "on_stop"
  /\ Cardinality(InCallback) <= 1
  /\ \A t \in Threads :
       /\ (h_pc[t] = "skip" /\ h_ev[t].kind = "press") =>
            (active /\ Len(cb_log) % 2 = 1)
       /\ (h_pc[t] = "skip" /\ h_ev[t].kind = "release") =>
            (~active /\ Len(cb_log) % 2 = 0)
       /\ (h_pc[t] = "call" /\ h_ev[t].kind = "press") => Len(cb_log) % 2 = 0
       /\ (h_pc[t] = "call" /\ h_ev[t].kind = "release") => Len(cb_log) % 2 = 1

\* a second press, handled while active, that fires nothing, while the other
\* thread waits for the lock with a release
C20_Witness ==
  \E t, u \in Threads :
    /\ t # u
    /\ h_pc[t] = "skip"
    /\ h_ev[t].kind = "press"
    /\ h_pc[u] = "acquire"
    /\ h_ev[u].kind = "release"
    /\ cb_log = << "on_start" >>

\* ------------------------------------------------------------------ C26
\* C26: a queue-read timeout with no block available is a no-op: the step
\* taken on an empty queue that stays empty leaves the capture buffer,
\* silent_samples and total_samples unchanged, raises nothing, takes no
\* break and leaves the session in its loop with the stream as it was.
C26_TimeoutNoOp ==
  [][(fn = "record_until_silence" /\ pc = "loop"
        /\ audio_queue = <<>> /\ audio_queue' = <<>>) =>
       /\ chunks' = chunks
       /\ silent_samples' = silent_samples
       /\ total_samples' = total_samples
       /\ stop' = stop
       /\ outcome' = outcome
       /\ result' = result
       /\ stream' = stream
       /\ pc' = "loop"]_vars

\* the loop waits on an empty queue in the middle of a session, silence
\* already counted
C26_Witness ==
  /\ fn = "record_until_silence"
  /\ pc = "loop"
  /\ audio_queue = <<>>
  /\ chunks # <<>>
  /\ silent_samples > 0
  /\ stop = "none"

\* ------------------------------------------------------------------ C30
\* C30: record_until_silence overshoots its limits by less than one block:
\* at the stop total_samples, the length of the returned buffer, is less
\* than max_samples plus the length of the stopping block, and at a stop by
\* silence silent_samples is less than silent_samples_needed plus that
\* length unless only the total_samples > silent_samples_needed guard held
\* the stop back on the block before.
C30_Overshoot ==
  (fn = "record_until_silence" /\ Stopped) =>
    LET last == Len(chunks[Len(chunks)])
    IN  /\ total_samples < max_samples + last
        /\ outcome = "returned" => Len(result) = total_samples
        /\ stop = "silence" =>
             \/ silent_samples < silent_samples_needed + last
             \/ /\ silent_samples - last = silent_samples_needed
                /\ total_samples - last = silent_samples_needed

\* a stop by silence past the window, returned
C30_Witness ==
  /\ fn = "record_until_silence"
  /\ stop = "silence"
  /\ silent_samples_needed > 0
  /\ silent_samples > silent_samples_needed
  /\ total_samples > silent_samples
  /\ outcome = "returned"

\* a stop by silence that the guard held back by one block
GuardDelayedStop ==
  /\ stop = "silence"
  /\ silent_samples_needed > 0
  /\ silent_samples - Len(chunks[Len(chunks)]) = silent_samples_needed

\* ------------------------------------------------------------------ C27
\* a handler is entered for a key that is not the trigger key
OtherKeyStep ==
  \E t \in Threads :
    /\ h_ev'[t].n = events + 1
    /\ h_ev'[t].key = "other"

\* what is_active returns: it takes the lock, so it reads _active only
\* while no handler holds it (hotkey.py lines 118-122)
IsActiveReadable == lock = 0

\* C27: press and release events of any key other than the trigger key leave
\* a PushToTalk unchanged: is_active keeps its value and neither callback is
\* invoked; is_active is true exactly when the most recent state-changing
\* trigger-key event was a press.
C27_OtherKeysIgnored ==
  /\ [](\A t \in Threads :
          h_ev[t].key = "other" => h_pc[t] = "idle")
  /\ [](IsActiveReadable =>
          (active <=> (cb_log # <<>> /\ cb_log[Len(cb_log)] = "on_start")))
  /\ [][OtherKeyStep =>
          /\ active' = active
          /\ cb_log' = cb_log
          /\ lock' = lock
          /\ \A t \in Threads : h_pc'[t] = h_pc[t]]_vars

\* a release of another key handled while the trigger key is held
C27_Witness ==
  \E t \in Threads :
    /\ h_ev[t].key = "other"
    /\ h_ev[t].kind = "release"
    /\ h_pc[t] = "idle"
    /\ active
    /\ lock = 0
    /\ cb_log = << "on_start" >>

\* ------------------------------------------------------------------ C28
InLog(e) == \E i \in 1..Len(out_log) : out_log[i] = e

\* C28: to_paste copies the text to the clipboard before it simulates the
\* paste keystroke: when the copy fails OutputError is raised and no
\* keystroke is simulated; when the keystroke simulation fails OutputError
\* is raised and the text is in the clipboard.
C28_CopyBeforePaste ==
  Running = "to_paste" =>
    /\ (\E i \in 1..Len(out_log) :
          out_log[i] \in {"press", "tap", "release", "keys_failed"}) =>
         /\ out_log[1] = "copy"
         /\ clipboard = out_call.text
    /\ InLog("copy_failed") =>
         /\ out_log = << "copy_failed" >>
         /\ out_outcome = "OutputError"
         /\ out_pc = "done"
    /\ (InLog("keys_failed") /\ out_pc = "done") =>
         /\ out_outcome = "OutputError"
         /\ clipboard = out_call.text
    /\ out_outcome = "returned" =>
         out_log = << "copy", "press", "tap", "release" >>

\* the keystroke failed after the modifier was pressed; the text is in the
\* clipboard all the same
C28_Witness ==
  /\ out_call.f = "to_paste"
  /\ out_log = << "copy", "press", "keys_failed", "release" >>
  /\ out_outcome = "OutputError"
  /\ clipboard = out_call.text

\* the copy failed in to_paste reached through deliver
PasteCopyFailed ==
  /\ out_call.f = "deliver"
  /\ out_call.mode = "paste"
  /\ out_log = << "copy_failed" >>
  /\ clipboard = "old"

\* ------------------------------------------------------------------ C23
Constructions(m) == { i \in 1..Len(constructed) : constructed[i] = m }

\* C23: get_model loads each model size at most once per process: the first
\* call for a valid size constructs and caches the model and every later
\* call for that size returns the cached instance without constructing
\* another, for any sequence of calls and for concurrent calls from
\* different worker threads.
C23_Claim ==
  \A m \in VALID_MODEL_SIZES : Cardinality(Constructions(m)) <= 1

\* as long as no size has been constructed twice, every call for a valid
\* size returned the one instance constructed for it and every call for
\* another size raised ValueError
SameInstanceUntilRace ==
  (\A m \in VALID_MODEL_SIZES : Cardinality(Constructions(m)) <= 1) =>
    \A w \in Workers : \A k \in 1..Len(gm_ret[w]) :
      LET r == gm_ret[w][k]
      IN  IF r.model_size \in VALID_MODEL_SIZES
          THEN /\ r.status = "returned"
               /\ Constructions(r.model_size) = {r.instance}
          ELSE r.status = "ValueError"

\* one thread called get_model twice for the same size
SecondCallCached ==
  \E w \in Workers :
    /\ Len(gm_ret[w]) = 2
    /\ gm_ret[w][1].model_size = gm_ret[w][2].model_size
    /\ gm_ret[w][2].status = "returned"
    /\ Len(constructed) = 1

\* ------------------------------------------------------------------ C21
\* on_stop runs: the release of the trigger key clears recording_event
OnStopStep == Len(cb_log') = Len(cb_log) + 1 /\ cb_log'[Len(cb_log')] = "on_stop"

OnStopReturns == recording_event /\ ~recording_event'

Kept(a) == a = audio_data \/ a \in transcribed

\* C29: in the listen command no recording is lost between the record thread
\* and the process thread: every non-empty buffer that record_loop stores in
\* audio_data is taken by process_loop and passed to transcribe, for every
\* interleaving of the two threads, including when a new recording completes
\* while the previous one is still waiting or being transcribed.
C29_Claim == \A a \in stored : Kept(a)

\* the second recording was stored over the first, which process_loop had
\* not taken, during the transcription of none of them
OverwrittenWhileWaiting ==
  /\ stored = {1, 2}
  /\ audio_data = 2
  /\ transcribed = {}

\* two recordings completed during one transcription: the earlier of them
\* was stored over
OverwrittenDuringTranscribe ==
  /\ stored = {1, 2, 3}
  /\ proc_pc = "transcribe"
  /\ proc_audio = 1
  /\ audio_data = 3

\* ------------------------------------------------------------------ C25
\* the calls of record_voice in the order of the claim
McpOrder == << "record_until_silence", "transcribe", "clean" >>

IsPrefix(s, t) == Len(s) <= Len(t) /\ s = SubSeq(t, 1, Len(s))

\* C25: the MCP record_voice tool performs its steps in a fixed order, each
\* exactly once: record_until_silence, then transcribe, then clean if and
\* only if clean_text is true; when recording raises, the error propagates
\* to the caller and neither transcribe nor clean is invoked.
C25_FixedOrder ==
  \A r \in 1..MaxRequests :
    /\ IsPrefix(mcp[r].log, McpOrder)
    /\ mcp_pc[r] = "done" =>
         /\ mcp[r].outcome = "returned"
         /\ mcp[r].log = IF mcp[r].clean_text
                         THEN McpOrder ELSE SubSeq(McpOrder, 1, 2)
    /\ mcp[r].outcome = "RecorderError" =>
         /\ mcp_pc[r] = "failed"
         /\ mcp[r].log = SubSeq(McpOrder, 1, 1)

\* one request returned uncleaned text, and the other returned cleaned text
\* or failed in the recorder
C25_Witness ==
  \E r, q \in 1..MaxRequests :
    /\ mcp_pc[r] = "done"
    /\ ~mcp[r].clean_text
    /\ mcp[r].text # ""
    /\ \/ mcp[q].outcome = "RecorderError"
       \/ mcp_pc[q] = "done" /\ mcp[q].clean_text

\* ------------------------------------------------------------------ C24
\* the invocations of say and of record_voice
Flows == {say} \cup { mcp[r] : r \in 1..MaxRequests }

Called(flow, f) == \E i \in 1..Len(flow.log) : flow.log[i] = f

\* the recorder opened its stream and gave the caller no samples
EmptyRecording(flow) == "InputStream" \in flow.io /\ flow.audio = 0

SayGuardsEmpty ==
  /\ say_pc = "done"
  /\ EmptyRecording(say)
  /\ say.log = << "record_until_silence" >>
  /\ say.outcome = "returned"

\* the record loop of listen stores no zero-length recording
ListenGuardsEmpty == 0 \notin stored \cup transcribed

\* record_voice passed a zero-length recording to transcribe
McpTranscribesEmpty ==
  \E r \in 1..MaxRequests :
    EmptyRecording(mcp[r]) /\ Called(mcp[r], "transcribe")

\* ------------------------------------------------------------------ C22
\* the invocation asks for a model size or an output mode that is not valid
InvalidConfiguration(flow) ==
  \/ flow.model \notin VALID_MODEL_SIZES \cup {"none"}
  \/ flow.output_mode \notin VALID_MODES \cup {"none"}

\* C22: invalid configuration is rejected before any I/O: an out-of-range
\* model size or an unknown output mode raises its error before any audio
\* stream is opened, any model is loaded, or any delivery action is
\* performed, on every entry point that accepts these values.
C22_Claim ==
  \A flow \in Flows : InvalidConfiguration(flow) => flow.io = {}

\* record_voice opened the stream and recorded before the ValueError of
\* get_model for the model size it was given
McpRecordsBeforeReject ==
  \E r \in 1..MaxRequests :
    /\ mcp[r].outcome = "ValueError"
    /\ "InputStream" \in mcp[r].io

\* say with an invalid option ends in the usage error of click, no call made
SayRejectsFirst ==
  InvalidConfiguration(say) =>
    say.io = {} /\ say.log = << >> /\ say.outcome \in {"none", "UsageError"}

\* deliver with an unknown mode raises before any copy, write or keystroke
DeliverRejectsFirst ==
  out_call.f = "deliver" /\ out_call.mode \notin VALID_MODES =>
    out_log = << >> /\ out_outcome \in {"none", "ValueError"}

\* get_model constructs no model for a size that is not valid
GetModelRejectsFirst ==
  \A i \in 1..Len(constructed) : constructed[i] \in VALID_MODEL_SIZES

\* ------------------------------------------------------------------ C31
\* an exception of the callback is on its way out of the handler of thread t
Escaping(t) == h_pc[t] = "unwind"

\* the callback of thread t ends in this step by raising
CallbackRaises(t) ==
  h_pc[t] = "in_callback" /\ h_pc'[t] # "in_callback" /\ h_exc'[t] # "none"

\* the callbacks invoked so far alternate, on_start first
Alternates ==
  \A i \in 1..Len(cb_log) :
    cb_log[i] = IF i % 2 = 1 THEN "on_start" ELSE "on_stop"

\* C31 (as stated): an exception raised by an on_start or on_stop callback
\* does not escape the PushToTalk event handler.
C31_Claim == \A t \in Threads : ~Escaping(t)

\* C31 (amended): an exception of class Exception raised by an on_start or
\* on_stop callback does not escape the handler; whatever a callback raises,
\* the state change is not undone (is_active stays toggled) and the lock is
\* released, so every later press or release event is still processed and
\* callbacks continue to alternate. A BaseException that is not an Exception
\* does escape.
C31_ExceptionContained ==
  /\ [](\A t \in Threads : h_exc[t] = "Exception" => ~Escaping(t))
  /\ [][\A t \in Threads :
          CallbackRaises(t) =>
            /\ active' = active
            /\ active = (h_ev[t].kind = "press")
            /\ cb_log' = cb_log]_vars
  /\ [](\A t \in Threads : h_pc[t] \in {"idle", "acquire"} => lock # t)
  /\ [](lock = 0 =>
          (active <=> (cb_log # <<>> /\ cb_log[Len(cb_log)] = "on_start")))
  /\ [](Alternates)
  /\ \A t \in Threads : (h_pc[t] # "idle") ~> (h_pc[t] = "idle")

\* on_start raised an Exception in one thread, whose handler returned with
\* the key active; the release that came later in the other thread was
\* processed and on_stop was invoked
C31_Witness ==
  \E t, u \in Threads :
    /\ t # u
    /\ h_exc[t] = "Exception"
    /\ h_ev[t].kind = "press"
    /\ h_pc[t] = "idle"
    /\ h_ev[u].kind = "release"
    /\ h_ev[u].n > h_ev[t].n
    /\ h_pc[u] = "idle"
    /\ cb_log = << "on_start", "on_stop" >>
    /\ ~active
    /\ lock = 0

\* on_stop raised SystemExit, which left the handler; the lock is free and
\* the key inactive
BaseExceptionEscaped ==
  \E t \in Threads :
    /\ h_exc[t] = "BaseException"
    /\ h_ev[t].kind = "release"
    /\ h_pc[t] = "idle"
    /\ lock = 0
    /\ ~active
==========================================================================
